---- MODULE Spec2Model ----
(***************************************************************************)
(* FAT-2 transaction construction of fat-js: TransactionBuilder,           *)
(* Transaction, TransactionBatchBuilder and TransactionBatch.              *)
(*                                                                         *)
(* Values.  An amount is an integer number of HALF token units, so that a  *)
(* non-integer amount (1.1 in the tests) is an odd number of halves; a     *)
(* BigNumber holds such a value exactly.  A JavaScript `undefined` is the  *)
(* string Undef for string-valued fields, the empty sequence for an        *)
(* optional argument or an optional one-element array, and def = FALSE for *)
(* an object-valued field.  Addresses and keys are short names: the        *)
(* private address "Fs1" has the key pair (pk1, sk1) and the public        *)
(* address "FA1"; "pk2" is the public key of "FA2".                        *)
(***************************************************************************)
EXTENDS Integers, Sequences, FiniteSets, TLC

VARIABLES
    impl,   \* which Transaction class require('./Transaction') yields
    tb,     \* the TransactionBuilder the caller is working on
    tx,     \* the Transaction last returned by TransactionBuilder.build()
    bb,     \* the TransactionBatchBuilder the caller is working on
    batch,  \* the TransactionBatch last returned by TransactionBatchBuilder.build()
    op,     \* the name of the last call
    res,    \* its outcome: Ok, or the message of the Error it threw
    arg,    \* the arguments of the last call, when made on a batch builder
    ret     \* the value the last call returned, when the caller keeps it

vars == <<impl, tb, tx, bb, batch, op, res, arg, ret>>

----------------------------------------------------------------------------
(* Bounds *)

MaxTransfers == 2
MaxBatch == 2
MaxTime == 2

----------------------------------------------------------------------------
(* Values *)

Undef == "undefined"
Ok == "ok"
TypeError == "TypeError"
ReferenceError == "ReferenceError"

PrivateAddresses == {"Fs1"}
PublicAddresses == {"FA1", "FA2"}
AddressArgs == PrivateAddresses \cup PublicAddresses \cup {"bad"}
AssetTypes == {"pFCT", "PEG"}
PublicKeys == {"pk1", "pk2"}
MetadataArgs == {"demo", "cyclic"}

\* an omitted amount, and -1, 0, 1/2, 1 and 2 units, in halves
AmountArgs == {<<>>, <<-2>>, <<0>>, <<1>>, <<2>>, <<4>>}

\* a detached signature: its length in bytes, the secret key and the hash signed
SignatureArgs ==
    { [length |-> l, sk |-> "sk1", hashed |-> "external"] : l \in {63, 64} }

RCD_TYPE_1 == 1

\* fctAddressUtil of the factom library, as the builder uses it
isValidPrivateAddress(s) == s \in PrivateAddresses

isValidPublicFctAddress(s) == s \in PublicAddresses

getPublicAddress(fs) == IF fs = "Fs1" THEN "FA1" ELSE Undef

keyToPublicFctAddress(pk) ==
    IF pk = "pk1" THEN "FA1" ELSE IF pk = "pk2" THEN "FA2" ELSE Undef

\* nacl.keyPair.fromSeed(fctAddressUtil.addressToKey(fs))
keyPairFromSeed(fs) ==
    IF fs = "Fs1"
    THEN [def |-> TRUE, pubaddr |-> Undef, publicKey |-> "pk1", secretKey |-> "sk1"]
    ELSE [def |-> TRUE, pubaddr |-> Undef, publicKey |-> Undef, secretKey |-> Undef]

\* BigNumber.isInteger and BigNumber.isLessThan on a number of halves
isInteger(v) == v % 2 = 0

isLessThan(v, w) == v < w

\* JSON.stringify throws on a cyclic value
JSONStringifyThrows(m) == m = "cyclic"

----------------------------------------------------------------------------
(* TransactionBuilder *)

EmptyKey == [def |-> TRUE, pubaddr |-> Undef, publicKey |-> Undef, secretKey |-> Undef]
NoKey == [def |-> FALSE, pubaddr |-> Undef, publicKey |-> Undef, secretKey |-> Undef]
NoInput == [def |-> FALSE, address |-> Undef, amount |-> 0, type |-> Undef]
NoTransfers == [def |-> FALSE, list |-> <<>>]

\* new TransactionBuilder()
FreshBuilder ==
    [ _key |-> EmptyKey,
      _signature |-> <<>>,
      _input |-> [def |-> TRUE, address |-> "", amount |-> 0, type |-> ""],
      _transfers |-> [def |-> TRUE, list |-> <<>>],
      _conversion |-> Undef,
      _timestamp |-> <<>>,
      _metadata |-> Undef ]

Result(e, b) == [err |-> e, b |-> b]

\* `amount === undefined` is replaced by 0, then new BigNumber(amt)
AmountOf(amount_) == IF amount_ = <<>> THEN 0 ELSE amount_[1]

\* a guard that rejects only an amount that is both fractional and negative
AmountRejectedWhenBoth(amt) == ~isInteger(amt) /\ isLessThan(amt, 0)

\* the guard of the amount errors
AmountRejected(amt) == ~isInteger(amt) \/ isLessThan(amt, 0)

\* `this._input.length > 0`: _input is an object without a length property,
\* and undefined > 0 is false
InputAlreadySpecified(b) == FALSE

\* input() that takes the key and the address of a private address before it
\* checks the amount
inputAssigningFirst(b, type_, fs, amount_) ==
    LET amt == AmountOf(amount_) IN
    IF ~b._input.def THEN Result(TypeError, b)
    ELSE IF InputAlreadySpecified(b) THEN Result("Input already specified", b)
    ELSE IF b._signature # <<>>
    THEN Result("Attempting to add new input to a previously assembled transaction, expecting signatures only", b)
    ELSE IF isValidPrivateAddress(fs)
    THEN IF AmountRejected(amt)
         THEN Result("Input amount must be a positive nonzero integer",
                     [b EXCEPT !._key = keyPairFromSeed(fs),
                               !._input.address = getPublicAddress(fs)])
         ELSE Result(Ok, [b EXCEPT
                 !._key = keyPairFromSeed(fs),
                 !._input = [def |-> TRUE, address |-> getPublicAddress(fs),
                             amount |-> amt, type |-> type_]])
    ELSE IF ~isValidPublicFctAddress(fs)
    THEN Result("Input address must be either a valid private Factoid address or a Factoid public address", b)
    ELSE IF AmountRejected(amt)
    THEN Result("Input amount must be a positive nonzero integer", b)
    ELSE Result(Ok, [b EXCEPT
            !._key = [def |-> TRUE, pubaddr |-> fs, publicKey |-> Undef, secretKey |-> Undef],
            !._input = [def |-> TRUE, address |-> fs, amount |-> amt, type |-> type_]])

input(b, type_, fs, amount_) ==
    LET amt == AmountOf(amount_) IN
    IF ~b._input.def THEN Result(TypeError, b)
    ELSE IF InputAlreadySpecified(b) THEN Result("Input already specified", b)
    ELSE IF b._signature # <<>>
    THEN Result("Attempting to add new input to a previously assembled transaction, expecting signatures only", b)
    ELSE IF isValidPrivateAddress(fs)
    THEN IF AmountRejected(amt)
         THEN Result("Input amount must be a positive nonzero integer", b)
         ELSE Result(Ok, [b EXCEPT
                 !._key = keyPairFromSeed(fs),
                 !._input = [def |-> TRUE, address |-> getPublicAddress(fs),
                             amount |-> amt, type |-> type_]])
    ELSE IF ~isValidPublicFctAddress(fs)
    THEN Result("Input address must be either a valid private Factoid address or a Factoid public address", b)
    ELSE IF AmountRejected(amt)
    THEN Result("Input amount must be a positive nonzero integer", b)
    ELSE Result(Ok, [b EXCEPT
            !._key = [def |-> TRUE, pubaddr |-> fs, publicKey |-> Undef, secretKey |-> Undef],
            !._input = [def |-> TRUE, address |-> fs, amount |-> amt, type |-> type_]])

\* transfer() without the check of the address
transferAnyAddress(b, fa, amount) ==
    LET amt == AmountOf(amount) IN
    IF b._conversion # Undef THEN Result("Conversion already specified", b)
    ELSE IF b._signature # <<>>
    THEN Result("Attempting to add new output to previously assembled transaction, expecting signature only", b)
    ELSE IF AmountRejected(amt)
    THEN Result("Input amount must be a positive nonzero integer", b)
    ELSE IF ~b._transfers.def THEN Result(TypeError, b)
    ELSE Result(Ok, [b EXCEPT
            !._transfers.list = Append(@, [address |-> fa, amount |-> amt])])

transfer(b, fa, amount) ==
    LET amt == AmountOf(amount) IN
    IF b._conversion # Undef THEN Result("Conversion already specified", b)
    ELSE IF b._signature # <<>>
    THEN Result("Attempting to add new output to previously assembled transaction, expecting signature only", b)
    ELSE IF ~isValidPublicFctAddress(fa)
    THEN Result("Output address must be a valid public Factoid address", b)
    ELSE IF AmountRejected(amt)
    THEN Result("Input amount must be a positive nonzero integer", b)
    ELSE IF ~b._transfers.def THEN Result(TypeError, b)
    ELSE Result(Ok, [b EXCEPT
            !._transfers.list = Append(@, [address |-> fa, amount |-> amt])])

\* conversion() without the check of the transfers
conversionOverTransfers(b, convert_to_type_) ==
    IF b._signature # <<>>
    THEN Result("Attempting to add new conversion to previously assembled transaction, expecting signature only", b)
    ELSE Result(Ok, [b EXCEPT !._conversion = convert_to_type_])

conversion(b, convert_to_type_) ==
    IF ~b._transfers.def THEN Result(TypeError, b)
    ELSE IF Len(b._transfers.list) > 0
    THEN Result("One or more transfer(s) already specified for this transaction", b)
    ELSE IF b._signature # <<>>
    THEN Result("Attempting to add new conversion to previously assembled transaction, expecting signature only", b)
    ELSE Result(Ok, [b EXCEPT !._conversion = convert_to_type_])

metadataAfterSignature(b, m) ==
    IF JSONStringifyThrows(m)
    THEN Result("Transaction metadata bust be a valid JSON object or primitive", b)
    ELSE Result(Ok, [b EXCEPT !._metadata = m])

metadata(b, m) ==
    IF b._signature # <<>>
    THEN Result("Attempting to add new metadata to previously assembled transaction, expecting signatures only", b)
    ELSE IF JSONStringifyThrows(m)
    THEN Result("Transaction metadata bust be a valid JSON object or primitive", b)
    ELSE Result(Ok, [b EXCEPT !._metadata = m])

\* `this._input.address === fa`
MatchesInputAddressAssigned(b, fa) == TRUE

MatchesInputAddress(b, fa) == b._input.address = fa

pkSignatureAnyLength(b, publicKey, signature) ==
    LET fa == keyToPublicFctAddress(publicKey) IN
    IF ~b._input.def THEN Result(TypeError, b)
    ELSE IF MatchesInputAddress(b, fa)
    THEN IF ~b._key.def THEN Result(TypeError, b)
         ELSE Result(Ok, [b EXCEPT !._key.publicKey = publicKey,
                                   !._signature = <<signature>>])
    ELSE Result("Public Key for provided signature does not match input adderess.", b)

pkSignature(b, publicKey, signature) ==
    LET fa == keyToPublicFctAddress(publicKey) IN
    IF signature.length # 64 THEN Result("Invalid Signature Length.", b)
    ELSE IF ~b._input.def THEN Result(TypeError, b)
    ELSE IF MatchesInputAddress(b, fa)
    THEN IF ~b._key.def THEN Result(TypeError, b)
         ELSE Result(Ok, [b EXCEPT !._key.publicKey = publicKey,
                                   !._signature = <<signature>>])
    ELSE Result("Public Key for provided signature does not match input adderess.", b)

RECURSIVE SumAmounts(_)
\* the loop's `sum = sum.plus(this._transfers[i].amount)`
SumAmounts(list) ==
    IF list = <<>> THEN 0 ELSE Head(list).amount + SumAmounts(Tail(list))

\* the test of the outputs with "" for the unset conversion
NoOutputSpecifiedEmptyString(b) == b._conversion = "" /\ Len(b._transfers.list) = 0

\* `this._conversion === undefined && this._transfers.length === 0`
NoOutputSpecified(b) == b._conversion = Undef /\ Len(b._transfers.list) = 0

\* the test of the conversion against the input's address
ConversionSameAsInputAddress(b) == b._conversion = b._input.address

\* `this._conversion === this._input.type`
ConversionSameAsInput(b) == b._conversion = b._input.type

\* the test of a transfer against the address input() was called with, which is
\* kept (as _key.pubaddr) for a public input address only
IsSelfTransferOfArgument(b, i) == b._key.pubaddr = b._transfers.list[i].address

\* `this._input.address === this._transfers[i].address`
IsSelfTransfer(b, i) == b._input.address = b._transfers.list[i].address

\* the test of the sum that lets an input larger than the sum pass
ConservationViolatedOnExcess(b) == b._input.amount < SumAmounts(b._transfers.list)

\* `!this._input.amount.isEqualTo(sum)`
ConservationViolated(b) == b._input.amount # SumAmounts(b._transfers.list)

RECURSIVE TransferLoopError(_, _)
\* the first error of the loop over this._transfers from index i on
TransferLoopError(b, i) ==
    IF i > Len(b._transfers.list) THEN Ok
    ELSE IF AmountRejected(b._transfers.list[i].amount)
    THEN "transfer amount must be a positive nonzero integer"
    ELSE IF IsSelfTransfer(b, i)
    THEN "input cannot be the same as the transfer address"
    ELSE TransferLoopError(b, i + 1)

\* the validation of build(): the message of the first Error thrown, or Ok
BuildError(b) ==
    IF ~b._input.def THEN TypeError
    ELSE IF b._input.address = Undef \/ b._input.type = Undef
    THEN "Input must have an address, type, and amount specified"
    ELSE IF AmountRejected(b._input.amount)
    THEN "Input amount must be a positive nonzero integer"
    ELSE IF b._conversion = Undef /\ ~b._transfers.def THEN TypeError
    ELSE IF NoOutputSpecified(b)
    THEN "Either a conversion or transfer must be specified"
    ELSE IF b._conversion # Undef /\ ConversionSameAsInput(b)
    THEN "Conversion asset cannot be the same as the input asset."
    ELSE IF ~b._transfers.def THEN TypeError
    ELSE IF Len(b._transfers.list) > 0 /\ TransferLoopError(b, 1) # Ok
    THEN TransferLoopError(b, 1)
    ELSE IF Len(b._transfers.list) > 0 /\ ConservationViolated(b)
    THEN "transfer amount must equal input amount"
    ELSE IF b._timestamp # <<>> /\ b._signature = <<>>
    THEN "Missing signature: Inputs must have an associated signature"
    ELSE Ok

----------------------------------------------------------------------------
(* Transaction *)

NoRCD == [def |-> FALSE, type |-> 0, publicKey |-> Undef]

\* no Transaction: the caller holds none
NoTx ==
    [ exists |-> FALSE, input |-> NoInput, conversion |-> Undef,
      transfers |-> NoTransfers, metadata |-> Undef, key |-> NoKey,
      rcd |-> NoRCD, timestamp |-> <<>>, signature |-> <<>>,
      shInput |-> FALSE, shTransfers |-> FALSE, shKey |-> FALSE ]

\* `Buffer.from(builder._key.publicKey)` throws a TypeError on undefined
RCDThrows(b) == ~b._key.def \/ b._key.publicKey = Undef

\* a constructor that signs, as its last step, when the builder holds a secret
\* key
TransactionWithFieldsSigned(b) ==
    [ exists |-> TRUE,
      input |-> b._input,
      conversion |-> b._conversion,
      transfers |-> IF Len(b._transfers.list) > 0 THEN b._transfers ELSE NoTransfers,
      metadata |-> b._metadata,
      key |-> b._key,
      rcd |-> [def |-> TRUE, type |-> RCD_TYPE_1, publicKey |-> b._key.publicKey],
      timestamp |-> <<>>,
      signature |-> IF b._key.secretKey # Undef
                    THEN <<[length |-> 64, sk |-> b._key.secretKey, hashed |-> "content"]>>
                    ELSE <<>>,
      shInput |-> TRUE,
      shTransfers |-> Len(b._transfers.list) > 0,
      shKey |-> TRUE ]

\* new Transaction(builder), the class that keeps _input, _transfers, _key and
\* _rcd as its own fields.  _input, _transfers and _key are the builder's own
\* objects (shInput, shTransfers, shKey), not copies.  Neither class assigns a
\* _timestamp or a _signature.
TransactionWithFields(b) ==
    [ exists |-> TRUE,
      input |-> b._input,
      conversion |-> b._conversion,
      transfers |-> IF Len(b._transfers.list) > 0 THEN b._transfers ELSE NoTransfers,
      metadata |-> b._metadata,
      key |-> b._key,
      rcd |-> [def |-> TRUE, type |-> RCD_TYPE_1, publicKey |-> b._key.publicKey],
      timestamp |-> <<>>,
      signature |-> <<>>,
      shInput |-> TRUE,
      shTransfers |-> Len(b._transfers.list) > 0,
      shKey |-> TRUE ]

\* new Transaction(builder), the class that keeps a _content object:
\* `this._key !== undefined` is read before _key is ever assigned, so neither
\* _key nor _rcd is set
TransactionWithContent(b) ==
    [ exists |-> TRUE,
      input |-> b._input,
      conversion |-> b._conversion,
      transfers |-> IF Len(b._transfers.list) > 0 THEN b._transfers ELSE NoTransfers,
      metadata |-> b._metadata,
      key |-> NoKey,
      rcd |-> NoRCD,
      timestamp |-> <<>>,
      signature |-> <<>>,
      shInput |-> TRUE,
      shTransfers |-> Len(b._transfers.list) > 0,
      shKey |-> FALSE ]

\* build(): [err, t], t the Transaction returned when err = Ok
build(b, im) ==
    IF BuildError(b) # Ok THEN [err |-> BuildError(b), t |-> NoTx]
    ELSE IF im = "fields"
    THEN IF RCDThrows(b) THEN [err |-> TypeError, t |-> NoTx]
         ELSE [err |-> Ok, t |-> TransactionWithFields(b)]
    ELSE [err |-> Ok, t |-> TransactionWithContent(b)]

\* new TransactionBuilder(t), t a Transaction: the builder takes t's objects.
\* A Transaction of the _content class has none of the fields read here.
SeededBuilder(t, im) ==
    IF im = "fields"
    THEN [ _key |-> t.key,
           _signature |-> t.signature,
           _input |-> t.input,
           _transfers |-> t.transfers,
           _conversion |-> t.conversion,
           _timestamp |-> t.timestamp,
           _metadata |-> t.metadata ]
    ELSE [ _key |-> NoKey,
           _signature |-> <<>>,
           _input |-> NoInput,
           _transfers |-> NoTransfers,
           _conversion |-> Undef,
           _timestamp |-> <<>>,
           _metadata |-> Undef ]

\* the Transaction t after the builder b changed, in place, objects it shares
SyncTx(t, b) ==
    [ t EXCEPT !.input = IF t.shInput THEN b._input ELSE @,
               !.transfers = IF t.shTransfers THEN b._transfers ELSE @,
               !.key = IF t.shKey THEN b._key ELSE @ ]

\* Transaction.sign(hashed): a detached signature when a secret key is held,
\* undefined otherwise
signWithPublicKey(t, hashed) ==
    IF t.key.def /\ t.key.secretKey # Undef
    THEN <<[length |-> 64, sk |-> t.key.publicKey, hashed |-> hashed]>>
    ELSE <<>>

sign(t, hashed) ==
    IF t.key.def /\ t.key.secretKey # Undef
    THEN <<[length |-> 64, sk |-> t.key.secretKey, hashed |-> hashed]>>
    ELSE <<>>

\* the secret key of the pair of a public key
SecretKeyOf(publicKey) ==
    IF publicKey = "pk1" THEN "sk1" ELSE IF publicKey = "pk2" THEN "sk2" ELSE Undef

\* nacl.detached.verify(msg, sig, publicKey) of tweetnacl, for a sig of 64 bytes
verify(msg, sig, publicKey) == sig.sk = SecretKeyOf(publicKey) /\ sig.hashed = msg

\* Transaction.validateSignature: [err, value].  The class that keeps _rcd
\* takes (hashed, signature) and reads this._rcd; the class that keeps
\* _content takes (hashed, signature, rcd).  `Buffer.from(rcd, 1).slice(1)` is
\* the public key of the RCD.  tweetnacl's verify throws 'bad signature size'
\* for a signature that is not 64 bytes long.
validateSignature(t, im, hashed, signature, rcd) ==
    LET r == IF im = "fields" THEN t.rcd ELSE rcd IN
    IF signature = <<>> \/ ~r.def
    THEN [err |-> "Transaction not signed", value |-> FALSE]
    ELSE IF signature[1].length # 64
    THEN [err |-> "bad signature size", value |-> FALSE]
    ELSE [err |-> Ok, value |-> verify(hashed, signature[1], r.publicKey)]

\* Transaction.getContent(): only the class that keeps a _content object has it
HasGetContent(im) == im = "content"

getContent(t) ==
    [ input |-> [address |-> t.input.address, amount |-> t.input.amount,
                 type |-> t.input.type],
      conversion |-> t.conversion,
      transfers |-> t.transfers,
      metadata |-> t.metadata ]

----------------------------------------------------------------------------
(* TransactionBatchBuilder *)

NoSignatures == [def |-> FALSE, list |-> <<>>]

\* new TransactionBatchBuilder()
FreshBatchBuilder ==
    [ _transactions |-> <<>>, _signatures |-> NoSignatures, _timestamp |-> <<>> ]

\* new TransactionBatchBuilder(t), t a TransactionBatch: the builder takes t's
\* _transactions and _signatures arrays themselves
SeededBatchBuilder(t) ==
    [ _transactions |-> t._transactions, _signatures |-> t._signatures,
      _timestamp |-> t._timestamp ]

\* transaction(tx)
batchTransaction(b, t) == Result(Ok, [b EXCEPT !._transactions = Append(@, t)])

\* pkSignature(tx, signature) with the parameter tx read in its first
\* statement: the signature is stored at the first member with tx's input
\* address
batchPkSignatureOfTx(b, t, signature) ==
    LET found == { i \in 1 .. Len(b._transactions) :
                     /\ b._transactions[i].exists
                     /\ b._transactions[i].input.address = t.input.address }
        idx == CHOOSE i \in found : \A j \in found : i <= j
    IN IF ~t.exists THEN Result(Ok, b)
       ELSE IF \E i \in 1 .. Len(b._transactions) :
                  /\ ~b._transactions[i].exists
                  /\ \A j \in found : i < j
       THEN Result(TypeError, b)
       ELSE IF found = {}
       THEN Result("Transaction " \o t.input.address
                       \o " not found, so signature cannot be assigned.", b)
       ELSE IF ~b._signatures.def THEN Result(TypeError, b)
       ELSE Result(Ok, [b EXCEPT !._signatures.list[idx] = <<signature>>])

\* pkSignature(tx, signature): its first statement reads `t`, a name that is
\* bound nowhere, so the call throws a ReferenceError before anything else
batchPkSignature(b, t, signature) == Result(ReferenceError, b)

\* a test of the number of transactions that an empty list passes
NoTransactionsSpecifiedBelowZero(b) == Len(b._transactions) < 0

\* `this._transactions.length === 0`
NoTransactionsSpecified(b) == Len(b._transactions) = 0

RECURSIVE BatchLoopError(_, _)
\* the first error of build()'s loop from (1-based) index i on;
\* `this._signatures[i].find(...)` is a TypeError on an undefined slot and finds
\* nothing in a signature's bytes
BatchLoopError(b, i) ==
    IF i > Len(b._transactions) THEN Ok
    ELSE IF ~b._transactions[i].exists
    THEN "Malformed transaction" \o ToString(i - 1)
    ELSE IF b._signatures.def /\ b._signatures.list[i] = <<>> THEN TypeError
    ELSE BatchLoopError(b, i + 1)

\* the validation of TransactionBatchBuilder.build()
BatchBuildError(b) ==
    IF NoTransactionsSpecified(b) THEN "No Transactions Specified."
    ELSE IF b._signatures.def /\ Len(b._signatures.list) # Len(b._transactions)
    THEN "Expecting the same number of signatures as there are number of transactions"
    ELSE BatchLoopError(b, 1)

----------------------------------------------------------------------------
(* TransactionBatch *)

NoBatch ==
    [ exists |-> FALSE, _transactions |-> <<>>, _timestamp |-> <<>>,
      _extIds |-> <<>>, _rcds |-> [def |-> FALSE, list |-> <<>>],
      _content |-> [def |-> FALSE, transactions |-> <<>>],
      _signatures |-> NoSignatures,
      shTransactions |-> FALSE, shSignatures |-> FALSE ]

\* the token chain id every builder sets: a string, as its characters
TokenChainId ==
    << "c", "f", "f", "c", "e", "0", "f", "4", "0", "9", "e", "b", "b", "a", "4", "e",
       "d", "2", "3", "6", "d", "4", "9", "d", "8", "9", "c", "7", "0", "e", "4", "b",
       "d", "1", "f", "1", "3", "6", "7", "d", "8", "6", "4", "0", "2", "a", "3", "3",
       "6", "3", "3", "6", "6", "6", "8", "3", "2", "6", "5", "a", "2", "4", "2", "d" >>

\* the characters U+0020 .. U+007E in the order of their codes (the grave
\* accent by its name)
Printable ==
    << " ", "!", "\"", "#", "$", "%", "&", "'", "(", ")", "*", "+", ",", "-", ".", "/",
       "0", "1", "2", "3", "4", "5", "6", "7", "8", "9", ":", ";", "<", "=", ">", "?",
       "@", "A", "B", "C", "D", "E", "F", "G", "H", "I", "J", "K", "L", "M", "N", "O",
       "P", "Q", "R", "S", "T", "U", "V", "W", "X", "Y", "Z", "[", "\\", "]", "^", "_",
       "U+0060", "a", "b", "c", "d", "e", "f", "g", "h", "i", "j", "k", "l", "m", "n", "o",
       "p", "q", "r", "s", "t", "u", "v", "w", "x", "y", "z", "{", "|", "}", "~" >>

\* the code of every character of Printable
CharCodes ==
    [ c \in {Printable[i] : i \in 1 .. Len(Printable)} |->
        31 + (CHOOSE i \in 1 .. Len(Printable) : Printable[i] = c) ]

\* String.prototype.charCodeAt for a character of Printable
CharCode(c) == CharCodes[c]

\* Buffer.from(string): the UTF-8 bytes, one byte for each of these characters
BufferFrom(s) == [i \in 1 .. Len(s) |-> CharCode(s[i])]

\* the value of a hexadecimal digit of either case, -1 for any other character
HexValue(c) ==
    LET lower == <<"0", "1", "2", "3", "4", "5", "6", "7", "8", "9",
                   "a", "b", "c", "d", "e", "f">>
        upper == <<"0", "1", "2", "3", "4", "5", "6", "7", "8", "9",
                   "A", "B", "C", "D", "E", "F">>
    IN IF \E i \in 1 .. 16 : lower[i] = c
       THEN (CHOOSE i \in 1 .. 16 : lower[i] = c) - 1
       ELSE IF \E i \in 1 .. 16 : upper[i] = c
       THEN (CHOOSE i \in 1 .. 16 : upper[i] = c) - 1
       ELSE -1

RECURSIVE BufferFromHex(_)
\* Buffer.from(string, 'hex'): one byte for each pair of hexadecimal digits, up
\* to the first pair that is not one
BufferFromHex(s) ==
    IF Len(s) < 2 \/ HexValue(s[1]) < 0 \/ HexValue(s[2]) < 0 THEN <<>>
    ELSE <<16 * HexValue(s[1]) + HexValue(s[2])>> \o BufferFromHex(SubSeq(s, 3, Len(s)))

RECURSIVE NumberToString(_)
\* Number.prototype.toString() of a natural number: its decimal digits
NumberToString(n) ==
    IF n < 10 THEN <<Printable[17 + n]>>
    ELSE NumberToString(n \div 10) \o <<Printable[17 + (n % 10)]>>

\* the characters of the strings that addresses, asset types and metadata are
Characters(s) ==
    CASE s = "FA1" -> <<"F", "A", "1">>
      [] s = "FA2" -> <<"F", "A", "2">>
      [] s = "pFCT" -> <<"p", "F", "C", "T">>
      [] s = "PEG" -> <<"P", "E", "G">>
      [] s = "demo" -> <<"d", "e", "m", "o">>

\* JSON text of a string
Quoted(s) == <<"\"">> \o s \o <<"\"">>

\* JSON text of an amount, a BigNumber of half units
AmountText(v) ==
    NumberToString(v \div 2) \o (IF v % 2 = 0 THEN <<>> ELSE <<".", "5">>)

RECURSIVE Joined(_)
\* the elements of a JSON array or object, with commas between them
Joined(parts) ==
    IF parts = <<>> THEN <<>>
    ELSE IF Len(parts) = 1 THEN parts[1]
    ELSE parts[1] \o <<",">> \o Joined(Tail(parts))

\* a property of a JSON object, left out when its value is undefined
Property(name, present, text) ==
    IF present THEN <<Quoted(name) \o <<":">> \o text>> ELSE <<>>

\* JSON text of one {address, amount[, type]} object
AddressAmountText(o, withType) ==
    <<"{">> \o Joined(Property(<<"a", "d", "d", "r", "e", "s", "s">>, TRUE, Quoted(Characters(o.address)))
                      \o Property(<<"a", "m", "o", "u", "n", "t">>, TRUE, AmountText(o.amount))
                      \o Property(<<"t", "y", "p", "e">>, withType, Quoted(Characters(o.type))))
        \o <<"}">>

\* JSON text of the content of one Transaction, as getContent() returns it
ContentText(c) ==
    <<"{">> \o Joined(Property(<<"i", "n", "p", "u", "t">>, TRUE, AddressAmountText(c.input, TRUE))
                      \o Property(<<"c", "o", "n", "v", "e", "r", "s", "i", "o", "n">>, c.conversion # Undef,
                            Quoted(Characters(c.conversion)))
                      \o Property(<<"t", "r", "a", "n", "s", "f", "e", "r", "s">>, c.transfers.def,
                            <<"[">> \o Joined([i \in 1 .. Len(c.transfers.list) |->
                                         AddressAmountText(c.transfers.list[i], FALSE)])
                                \o <<"]">>)
                      \o Property(<<"m", "e", "t", "a", "d", "a", "t", "a">>, c.metadata # Undef,
                            Quoted(Characters(c.metadata))))
        \o <<"}">>

\* JSONBig.stringify({version: 1, transactions: [...]}), content the snapshot
\* FirstPassContent makes
JSONBigStringify(content) ==
    <<"{">> \o Joined(Property(<<"v", "e", "r", "s", "i", "o", "n">>, TRUE, NumberToString(content.version))
                      \o Property(<<"t", "r", "a", "n", "s", "a", "c", "t", "i", "o", "n", "s">>, TRUE,
                            <<"[">> \o Joined([i \in 1 .. Len(content.transactions) |->
                                         ContentText(content.transactions[i])])
                                \o <<"]">>))
        \o <<"}">>

\* Buffer.concat([index, timestamp, chainId, content]) of
\*   index = Buffer.from(inputIndex.toString()),
\*   timestamp = Buffer.from(_timestamp.toString()),
\*   chainId = Buffer.from(_tokenChainId, 'hex'), content = Buffer.from(_content),
\* _content the string that JSONBig.stringify made of the snapshot
MarshalDataSigContentAsHex(index, timestamp, chainId, content) ==
    BufferFrom(NumberToString(index)) \o BufferFrom(NumberToString(timestamp))
        \o BufferFromHex(chainId) \o BufferFromHex(JSONBigStringify(content))

MarshalDataSig(index, timestamp, chainId, content) ==
    BufferFrom(NumberToString(index)) \o BufferFrom(NumberToString(timestamp))
        \o BufferFromHex(chainId) \o BufferFrom(JSONBigStringify(content))

\* fctUtil.sha512
sha512(data) == [sha512 |-> data]

\* getMarshalDataSig(tb, inputIndex): [err, data].  Buffer.from(undefined)
\* throws a TypeError, for a missing _timestamp as for a missing _content.
getMarshalDataSigOfNext(t, inputIndex) ==
    IF t._timestamp = <<>> \/ ~t._content.def THEN [err |-> TypeError, data |-> <<>>]
    ELSE [ err |-> Ok,
           data |-> MarshalDataSig(inputIndex + 1, t._timestamp[1], TokenChainId,
                                   t._content) ]

getMarshalDataSig(t, inputIndex) ==
    IF t._timestamp = <<>> \/ ~t._content.def THEN [err |-> TypeError, data |-> <<>>]
    ELSE [ err |-> Ok,
           data |-> MarshalDataSig(inputIndex, t._timestamp[1], TokenChainId,
                                   t._content) ]

RECURSIVE ExtIdPairs(_, _)
\* the loop pushing _rcds[i] and _signatures[i] onto _extIds
ExtIdPairs(rcds, sigs) ==
    IF rcds = <<>> THEN <<>>
    ELSE <<[rcd |-> Head(rcds)], [sig |-> Head(sigs)]>>
             \o ExtIdPairs(Tail(rcds), Tail(sigs))

\* JSONBig.stringify({version: 1, transactions: [...]}): a snapshot by value
FirstPassContent(txs) ==
    [ def |-> TRUE, version |-> 1,
      transactions |-> [i \in 1 .. Len(txs) |-> getContent(txs[i])] ]

\* `builder._content` of the second pass: the builder's constructor sets
\* _tokenChainId, _version, _transactions, _signatures and _timestamp, and no
\* method adds a _content, so the read yields undefined
SecondPassContent(b) == [def |-> FALSE, transactions |-> <<>>]

\* new TransactionBatch(builder), second pass: the builder carries _signatures.
\* A member without an RCD is looked up in builder._keys, which no builder has.
SecondPass(b) ==
    IF \E i \in 1 .. Len(b._transactions) : ~b._transactions[i].rcd.def
    THEN [err |-> TypeError, t |-> NoBatch]
    ELSE IF Len(b._transactions) # Len(b._signatures.list)
    THEN [err |-> "Missmatch between rcds and the number of signatures provided",
          t |-> NoBatch]
    ELSE IF b._timestamp = <<>> THEN [err |-> TypeError, t |-> NoBatch]
    ELSE LET rcds == [i \in 1 .. Len(b._transactions) |-> b._transactions[i].rcd] IN
         [ err |-> Ok,
           t |-> [ exists |-> TRUE,
                   _transactions |-> b._transactions,
                   _timestamp |-> b._timestamp,
                   _extIds |-> <<[ts |-> ToString(b._timestamp[1])]>>
                                  \o ExtIdPairs(rcds, b._signatures.list),
                   _rcds |-> [def |-> TRUE, list |-> rcds],
                   _content |-> SecondPassContent(b),
                   _signatures |-> b._signatures,
                   shTransactions |-> TRUE, shSignatures |-> TRUE ] ]

\* the hash the first pass hands to sign() of the member of index idx
FirstPassHashed(idx, now, content) ==
    sha512(MarshalDataSig(idx, now, TokenChainId, content))

\* new TransactionBatch(builder), first pass, at clock reading now
FirstPass(b, im, now) ==
    IF Len(b._transactions) > 0 /\ ~HasGetContent(im)
    THEN [err |-> TypeError, t |-> NoBatch]
    ELSE LET content == FirstPassContent(b._transactions)
             sigs == [i \in 1 .. Len(b._transactions) |->
                        sign(b._transactions[i], FirstPassHashed(i - 1, now, content))]
             valid == \A i \in 1 .. Len(sigs) : sigs[i] # <<>>
             rcds == [i \in 1 .. Len(b._transactions) |-> b._transactions[i].rcd]
         IN [ err |-> Ok,
              t |-> [ exists |-> TRUE,
                      _transactions |-> b._transactions,
                      _timestamp |-> <<now>>,
                      _extIds |-> <<[ts |-> ToString(now)]>>
                                     \o (IF valid THEN ExtIdPairs(rcds, sigs) ELSE <<>>),
                      _rcds |-> IF valid THEN [def |-> TRUE, list |-> rcds]
                                ELSE [def |-> FALSE, list |-> <<>>],
                      _content |-> content,
                      _signatures |-> [def |-> TRUE, list |-> sigs],
                      shTransactions |-> TRUE, shSignatures |-> FALSE ] ]

\* TransactionBatchBuilder.build(): [err, t], t the batch returned when err = Ok
batchBuild(b, im, now) ==
    IF BatchBuildError(b) # Ok THEN [err |-> BatchBuildError(b), t |-> NoBatch]
    ELSE IF b._signatures.def THEN SecondPass(b)
    ELSE FirstPass(b, im, now)

\* the batch t after the builder b changed, in place, arrays it shares
SyncBatch(t, b) ==
    [ t EXCEPT !._transactions = IF t.shTransactions THEN b._transactions ELSE @,
               !._signatures = IF t.shSignatures THEN b._signatures ELSE @ ]

\* TransactionBatch.getEntry(): a batch made by a builder has the builder's
\* _tokenChainId, and the Entry takes _extIds and _content as they are
getEntry(t) ==
    [ err |-> Ok,
      entry |-> [chainId |-> TokenChainId, extIds |-> t._extIds, content |-> t._content] ]

\* `this._signature` and `this._rcd` of a TransactionBatch: the constructor
\* assigns _signatures and _rcds, and nothing assigns these two
BatchSignature(t) == NoSignatures

BatchRCD(t) == [def |-> FALSE, list |-> <<>>]

\* the forEach of validateSignatures at the member of index i - 1: the Error
\* thrown there, or Ok
ValidateLoopError(t, im, signature, rcd, i) ==
    IF getMarshalDataSig(t, i - 1).err # Ok THEN getMarshalDataSig(t, i - 1).err
    ELSE IF i > Len(signature.list) \/ i > Len(rcd.list) THEN "Transaction not signed"
    ELSE LET v == validateSignature(t._transactions[i], im,
                                    sha512(getMarshalDataSig(t, i - 1).data),
                                    signature.list[i], rcd.list[i])
         IN IF v.err # Ok THEN v.err
            ELSE IF ~v.value
            THEN "Invalid Transaction Signature for input " \o ToString(i - 1)
            ELSE Ok

\* TransactionBatch.validateSignatures(): [err, value]
validateSignaturesOfPresent(t, im) ==
    IF ~t._signatures.def THEN [err |-> "Transaction not signed", value |-> FALSE]
    ELSE LET rcd == [def |-> TRUE,
                     list |-> [i \in 1 .. Len(t._transactions) |-> t._transactions[i].rcd]]
             failing == {i \in 1 .. Len(t._transactions) :
                           /\ i <= Len(t._signatures.list)
                           /\ t._signatures.list[i] # <<>>
                           /\ ValidateLoopError(t, im, t._signatures, rcd, i) # Ok}
         IN IF failing = {} THEN [err |-> Ok, value |-> TRUE]
            ELSE LET first == CHOOSE i \in failing : \A j \in failing : i <= j
                 IN [err |-> ValidateLoopError(t, im, t._signatures, rcd, first),
                     value |-> FALSE]

validateSignatures(t, im) ==
    IF ~BatchSignature(t).def \/ ~BatchRCD(t).def
    THEN [err |-> "Transaction not signed", value |-> FALSE]
    ELSE LET failing == {i \in 1 .. Len(t._transactions) :
                           ValidateLoopError(t, im, BatchSignature(t), BatchRCD(t), i) # Ok}
         IN IF failing = {} THEN [err |-> Ok, value |-> TRUE]
            ELSE LET first == CHOOSE i \in failing : \A j \in failing : i <= j
                 IN [err |-> ValidateLoopError(t, im, BatchSignature(t), BatchRCD(t), first),
                     value |-> FALSE]

----------------------------------------------------------------------------
(* The caller's steps on a TransactionBuilder *)

\* a call without arguments
NoArgs == [tx |-> NoTx, signature |-> <<>>, index |-> <<>>]

Init ==
    /\ impl \in {"fields", "content"}
    /\ tb = FreshBuilder
    /\ tx = NoTx
    /\ bb = FreshBatchBuilder
    /\ batch = NoBatch
    /\ op = "new"
    /\ res = Ok
    /\ arg = NoArgs
    /\ ret = <<>>

\* A call that throws ends the caller's chain of calls (the object called is as
\* it was before the call); the next step starts a new chain.
Running == res = Ok

\* tb = new TransactionBuilder(): the start of a new chain of calls; the caller
\* lets go of the Transaction of the chain before
NewBuilder ==
    /\ tb' = FreshBuilder
    /\ tx' = NoTx
    /\ op' = "new"
    /\ res' = Ok
    /\ UNCHANGED <<impl, bb, batch, arg, ret>>

Input ==
    /\ Running
    /\ \E type_ \in AssetTypes, fs \in AddressArgs, amount_ \in AmountArgs :
        LET r == input(tb, type_, fs, amount_) IN
        /\ tb' = r.b
        \* on success _key is a new object, _input is changed in place
        /\ tx' = IF r.err = Ok THEN SyncTx([tx EXCEPT !.shKey = FALSE], r.b) ELSE tx
        /\ op' = "input"
        /\ res' = r.err
        /\ UNCHANGED <<impl, bb, batch, arg, ret>>

Transfer ==
    /\ Running
    /\ Len(tb._transfers.list) < MaxTransfers
    /\ \E fa \in AddressArgs, amount \in AmountArgs :
        LET r == transfer(tb, fa, amount) IN
        /\ tb' = r.b
        /\ tx' = SyncTx(tx, r.b)
        /\ op' = "transfer"
        /\ res' = r.err
        /\ UNCHANGED <<impl, bb, batch, arg, ret>>

Conversion ==
    /\ Running
    /\ \E convert_to_type_ \in AssetTypes :
        LET r == conversion(tb, convert_to_type_) IN
        /\ tb' = r.b
        /\ op' = "conversion"
        /\ res' = r.err
        /\ UNCHANGED <<impl, tx, bb, batch, arg, ret>>

Metadata ==
    /\ Running
    /\ \E m \in MetadataArgs :
        LET r == metadata(tb, m) IN
        /\ tb' = r.b
        /\ op' = "metadata"
        /\ res' = r.err
        /\ UNCHANGED <<impl, tx, bb, batch, arg, ret>>

PkSignature ==
    /\ Running
    /\ \E publicKey \in PublicKeys, signature \in SignatureArgs :
        LET r == pkSignature(tb, publicKey, signature) IN
        /\ tb' = r.b
        /\ tx' = SyncTx(tx, r.b)
        /\ op' = "pkSignature"
        /\ res' = r.err
        /\ UNCHANGED <<impl, bb, batch, arg, ret>>

Build ==
    LET r == build(tb, impl) IN
    /\ Running
    /\ tx' = IF r.err = Ok THEN r.t ELSE tx
    /\ op' = "build"
    /\ res' = r.err
    /\ UNCHANGED <<impl, tb, bb, batch, arg, ret>>

Next ==
    \/ NewBuilder
    \/ Input
    \/ Transfer
    \/ Conversion
    \/ Metadata
    \/ PkSignature
    \/ Build

Spec == Init /\ [][Next]_vars

----------------------------------------------------------------------------
(* The caller's steps on a TransactionBatchBuilder *)

\* a Transaction whose builder the caller has let go of
Detached(t) == [t EXCEPT !.shInput = FALSE, !.shTransfers = FALSE, !.shKey = FALSE]

\* the builders at the end of the chains of calls the batch members come from:
\* a conversion and a transfer from a private input address, and a transfer
\* and a conversion from public input addresses
MemberBuilders ==
    { conversion(input(FreshBuilder, "pFCT", "Fs1", <<4>>).b, "PEG").b,
      metadata(transfer(input(FreshBuilder, "pFCT", "Fs1", <<4>>).b, "FA2", <<4>>).b,
               "demo").b,
      transfer(input(FreshBuilder, "pFCT", "FA1", <<4>>).b, "FA2", <<4>>).b,
      conversion(input(FreshBuilder, "PEG", "FA2", <<2>>).b, "pFCT").b }

\* the arguments of transaction(tx): the Transactions those builders build, and
\* undefined
TransactionArgs(im) ==
    { Detached(build(b, im).t) : b \in {c \in MemberBuilders : build(c, im).err = Ok} }
        \cup {NoTx}

\* bb = new TransactionBatchBuilder(): the start of a new chain of calls
NewBatchBuilder ==
    /\ bb' = FreshBatchBuilder
    /\ batch' = NoBatch
    /\ op' = "batch.new"
    /\ res' = Ok
    /\ arg' = NoArgs
    /\ ret' = <<>>
    /\ UNCHANGED <<impl, tb, tx>>

\* bb = new TransactionBatchBuilder(batch)
SeedBatchBuilder ==
    /\ Running
    /\ batch.exists
    /\ bb' = SeededBatchBuilder(batch)
    /\ batch' = [batch EXCEPT !.shTransactions = TRUE, !.shSignatures = TRUE]
    /\ op' = "batch.seed"
    /\ res' = Ok
    /\ arg' = NoArgs
    /\ ret' = <<>>
    /\ UNCHANGED <<impl, tb, tx>>

BatchTransaction ==
    /\ Running
    /\ Len(bb._transactions) < MaxBatch
    /\ \E t \in TransactionArgs(impl) :
        LET r == batchTransaction(bb, t) IN
        /\ bb' = r.b
        /\ batch' = SyncBatch(batch, r.b)
        /\ op' = "batch.transaction"
        /\ res' = r.err
        /\ arg' = [tx |-> t, signature |-> <<>>, index |-> <<>>]
        /\ ret' = <<>>
        /\ UNCHANGED <<impl, tb, tx>>

BatchPkSignature ==
    /\ Running
    /\ \E t \in TransactionArgs(impl), signature \in SignatureArgs :
        LET r == batchPkSignature(bb, t, signature) IN
        /\ bb' = r.b
        /\ batch' = SyncBatch(batch, r.b)
        /\ op' = "batch.pkSignature"
        /\ res' = r.err
        /\ arg' = [tx |-> t, signature |-> <<signature>>, index |-> <<>>]
        /\ ret' = <<>>
        /\ UNCHANGED <<impl, tb, tx>>

BatchBuild ==
    /\ Running
    /\ \E now \in 1 .. MaxTime :
        LET r == batchBuild(bb, impl, now) IN
        /\ batch' = IF r.err = Ok THEN r.t ELSE batch
        /\ op' = "batch.build"
        /\ res' = r.err
        /\ arg' = NoArgs
        /\ ret' = <<>>
        /\ UNCHANGED <<impl, tb, tx, bb>>

\* a getEntry() that takes the extIds out of the batch as it hands them on
GetEntryDraining ==
    /\ Running
    /\ batch.exists
    /\ op' = "batch.getEntry"
    /\ res' = getEntry(batch).err
    /\ arg' = NoArgs
    /\ ret' = <<getEntry(batch).entry>>
    /\ batch' = [batch EXCEPT !._extIds = <<>>]
    /\ UNCHANGED <<impl, tb, tx, bb>>

\* batch.getEntry()
GetEntry ==
    /\ Running
    /\ batch.exists
    /\ op' = "batch.getEntry"
    /\ res' = getEntry(batch).err
    /\ arg' = NoArgs
    /\ ret' = <<getEntry(batch).entry>>
    /\ UNCHANGED <<impl, tb, tx, bb, batch>>

\* TransactionBatch.getChainId(): the _tokenChainId the builder set
getChainId(t) == TokenChainId

\* batch.getChainId()
GetChainId ==
    /\ Running
    /\ batch.exists
    /\ op' = "batch.getChainId"
    /\ res' = Ok
    /\ arg' = NoArgs
    /\ ret' = <<getChainId(batch)>>
    /\ UNCHANGED <<impl, tb, tx, bb, batch>>

\* TransactionBatch.getTimestamp()
getTimestamp(t) == t._timestamp

\* batch.getTimestamp()
GetTimestamp ==
    /\ Running
    /\ batch.exists
    /\ op' = "batch.getTimestamp"
    /\ res' = Ok
    /\ arg' = NoArgs
    /\ ret' = <<getTimestamp(batch)>>
    /\ UNCHANGED <<impl, tb, tx, bb, batch>>

\* batch.getMarshalDataSig(inputIndex)
GetMarshalDataSig ==
    /\ Running
    /\ batch.exists
    /\ \E inputIndex \in 0 .. MaxBatch :
        /\ op' = "batch.getMarshalDataSig"
        /\ res' = getMarshalDataSig(batch, inputIndex).err
        /\ ret' = <<getMarshalDataSig(batch, inputIndex).data>>
        /\ arg' = [tx |-> NoTx, signature |-> <<>>, index |-> <<inputIndex>>]
        /\ UNCHANGED <<impl, tb, tx, bb, batch>>

\* batch.validateSignatures()
ValidateSignatures ==
    /\ Running
    /\ batch.exists
    /\ op' = "batch.validateSignatures"
    /\ res' = validateSignatures(batch, impl).err
    /\ ret' = IF validateSignatures(batch, impl).err = Ok
              THEN <<validateSignatures(batch, impl).value>> ELSE <<>>
    /\ arg' = NoArgs
    /\ UNCHANGED <<impl, tb, tx, bb, batch>>

NextBatch ==
    \/ NewBatchBuilder
    \/ SeedBatchBuilder
    \/ BatchTransaction
    \/ BatchPkSignature
    \/ BatchBuild
    \/ GetEntry
    \/ GetChainId
    \/ GetTimestamp
    \/ GetMarshalDataSig
    \/ ValidateSignatures

SpecBatch == Init /\ [][NextBatch]_vars

----------------------------------------------------------------------------
(* The data to sign as a function of its four fields *)

\* indexes and timestamps of one and of two decimal digits
MarshalIndexes == (0 .. MaxBatch) \cup {10 + i : i \in 0 .. MaxBatch}
MarshalTimestamps == (1 .. MaxTime) \cup {10 + t : t \in 1 .. MaxTime}

\* the chain id of the builders and that of another token
MarshalChainIds == {TokenChainId, [TokenChainId EXCEPT ![1] = "d"]}

\* the content of the batches of no member and of one member
MarshalContents ==
    {FirstPassContent(<<>>)}
        \cup {FirstPassContent(<<t>>) : t \in TransactionArgs("content") \ {NoTx}}

MarshalArgs ==
    [ index : MarshalIndexes, timestamp : MarshalTimestamps,
      chainId : MarshalChainIds, content : MarshalContents ]

InitMarshal ==
    /\ impl = "content"
    /\ tb = FreshBuilder
    /\ tx = NoTx
    /\ bb = FreshBatchBuilder
    /\ batch = NoBatch
    /\ op = "new"
    /\ res = Ok
    /\ arg \in MarshalArgs
    /\ ret = <<>>

\* getMarshalDataSig of an object with arg's timestamp, chain id and content
MarshalDataToSign ==
    /\ op = "new"
    /\ op' = "getMarshalDataSig"
    /\ ret' = <<MarshalDataSig(arg.index, arg.timestamp, arg.chainId, arg.content)>>
    /\ UNCHANGED <<impl, tb, tx, bb, batch, res, arg>>

NextMarshal == MarshalDataToSign

SpecMarshal == InitMarshal /\ [][NextMarshal]_vars

----------------------------------------------------------------------------
(* The caller's steps on a built Transaction *)

\* the hashes of the data to sign of the indexes of a batch
HashArgs == {sha512(BufferFrom(NumberToString(i))) : i \in 0 .. MaxBatch - 1}

\* signatures made outside: with either secret key over any of the hashes,
\* whole or cut short by a byte; and undefined
ExternalSignatureArgs ==
    { <<[length |-> l, sk |-> sk, hashed |-> h]>> :
        l \in {63, 64}, sk \in {"sk1", "sk2"}, h \in HashArgs } \cup {<<>>}

\* the third argument of validateSignature: tx.getRCD(), or the RCD of a public key
RCDArgs(t, im) ==
    IF im = "fields" THEN {NoRCD}
    ELSE {t.rcd} \cup {[def |-> TRUE, type |-> RCD_TYPE_1, publicKey |-> pk] : pk \in PublicKeys}

\* the caller holds one of the Transactions that the builders build
InitSign ==
    /\ impl \in {"fields", "content"}
    /\ tb = FreshBuilder
    /\ tx \in TransactionArgs(impl) \ {NoTx}
    /\ bb = FreshBatchBuilder
    /\ batch = NoBatch
    /\ op = "new"
    /\ res = Ok
    /\ arg = [hashed |-> <<>>, signature |-> <<>>, rcd |-> NoRCD]
    /\ ret = <<>>

\* signature = tx.sign(hashed)
Sign ==
    /\ Running
    /\ \E hashed \in HashArgs :
        /\ op' = "sign"
        /\ res' = Ok
        /\ ret' = sign(tx, hashed)
        /\ arg' = [hashed |-> <<hashed>>, signature |-> <<>>, rcd |-> NoRCD]
    /\ UNCHANGED <<impl, tb, tx, bb, batch>>

\* tx.validateSignature(hashed, signature[, rcd]), signature the one that the
\* sign(hashed) just before returned, or one made outside
ValidateSignature ==
    /\ Running
    /\ \E hashed \in HashArgs, rcd \in RCDArgs(tx, impl),
          signature \in ExternalSignatureArgs
                          \cup (IF op = "sign" THEN {ret} ELSE {}) :
        /\ op = "sign" /\ signature = ret => <<hashed>> = arg.hashed
        /\ op' = "validateSignature"
        /\ res' = validateSignature(tx, impl, hashed, signature, rcd).err
        /\ ret' = <<validateSignature(tx, impl, hashed, signature, rcd).value>>
        /\ arg' = [hashed |-> <<hashed>>, signature |-> signature, rcd |-> rcd]
    /\ UNCHANGED <<impl, tb, tx, bb, batch>>

NextSign ==
    \/ Sign
    \/ ValidateSignature

SpecSign == InitSign /\ [][NextSign]_vars

----------------------------------------------------------------------------
(* The caller's steps on a TransactionBuilder seeded from a Transaction *)

\* the caller holds one of the Transactions that the builders build
InitSeed ==
    /\ impl \in {"fields", "content"}
    /\ tb = FreshBuilder
    /\ tx \in TransactionArgs(impl) \ {NoTx}
    /\ bb = FreshBatchBuilder
    /\ batch = NoBatch
    /\ op = "new"
    /\ res = Ok
    /\ arg = NoArgs
    /\ ret = <<>>

\* tb = new TransactionBuilder(tx): the builder takes the objects of tx
SeedBuilder ==
    /\ tx.exists
    /\ tb' = SeededBuilder(tx, impl)
    /\ tx' = [tx EXCEPT !.shInput = (impl = "fields"),
                        !.shTransfers = (impl = "fields" /\ tx.transfers.def),
                        !.shKey = (impl = "fields" /\ tx.key.def)]
    /\ op' = "seed"
    /\ res' = Ok
    /\ UNCHANGED <<impl, bb, batch, arg, ret>>

NextSeed ==
    \/ SeedBuilder
    \/ Input
    \/ PkSignature
    \/ Build

SpecSeed == InitSeed /\ [][NextSeed]_vars

----------------------------------------------------------------------------
(* A Transaction made of the object of a ledger or API response *)

\* the input, conversion, transfers and metadata of `builder.data`: each
\* absent or present, a conversion also as the empty string and the transfers
\* also as an empty array
ObjectInputs ==
    {NoInput} \cup
    { [def |-> TRUE, address |-> fa, amount |-> 2, type |-> "pFCT"] : fa \in PublicAddresses }

ObjectConversions == {Undef, "", "PEG"}

ObjectTransfers ==
    { NoTransfers,
      [def |-> TRUE, list |-> <<>>],
      [def |-> TRUE, list |-> <<[address |-> "FA2", amount |-> 2]>>] }

ObjectMetadata == {Undef, "demo"}

ObjectTimestamps == {<<>>, <<1>>}

ResponseObjects ==
    [ input : ObjectInputs, conversion : ObjectConversions,
      transfers : ObjectTransfers, metadata : ObjectMetadata,
      timestamp : ObjectTimestamps ]

\* `!v` of a conversion: undefined and the empty string are falsy
Falsy(v) == v = Undef \/ v = ""

\* new Transaction(builder), builder not a TransactionBuilder: [err, t].  An
\* array, also an empty one, is truthy.  The class that keeps a _content
\* object creates it only in the branch of the builder, so in this branch
\* `this._content.input = ...` throws a TypeError.
TransactionFromObject(data, im) ==
    IF ~data.input.def
    THEN [err |-> "Valid FAT-2 transactions must include input", t |-> NoTx]
    ELSE IF Falsy(data.conversion)
    THEN [err |-> "Valid FAT-2 transactions must include conversion", t |-> NoTx]
    ELSE IF ~data.transfers.def
    THEN [err |-> "Valid FAT-2 transactions must include transaction", t |-> NoTx]
    ELSE IF im = "content" THEN [err |-> TypeError, t |-> NoTx]
    ELSE [ err |-> Ok,
           t |-> [ NoTx EXCEPT !.exists = TRUE, !.input = data.input,
                               !.transfers = data.transfers,
                               !.conversion = data.conversion,
                               !.metadata = data.metadata,
                               !.timestamp = data.timestamp ] ]

\* the caller holds a response object and no Transaction yet
InitObject ==
    /\ impl \in {"fields", "content"}
    /\ tb = FreshBuilder
    /\ tx = NoTx
    /\ bb = FreshBatchBuilder
    /\ batch = NoBatch
    /\ op = "new"
    /\ res = Ok
    /\ arg \in ResponseObjects
    /\ ret = <<>>

\* tx = new Transaction({data: arg, timestamp: arg.timestamp})
NewTransactionFromObject ==
    /\ Running
    /\ op = "new"
    /\ op' = "fromObject"
    /\ res' = TransactionFromObject(arg, impl).err
    /\ tx' = TransactionFromObject(arg, impl).t
    /\ UNCHANGED <<impl, tb, bb, batch, arg, ret>>

NextObject == NewTransactionFromObject

SpecObject == InitObject /\ [][NextObject]_vars

----------------------------------------------------------------------------
(* Properties of TransactionBuilder *)

\* an amount argument that is negative or not an integer
BadAmountArgs == {a \in AmountArgs : a # <<>> /\ (a[1] < 0 \/ a[1] % 2 # 0)}

\* an address argument that is neither a private nor a public address, and one
\* that is not a public address
BadInputAddressArgs == AddressArgs \ {"Fs1", "FA1", "FA2"}
BadOutputAddressArgs == AddressArgs \ {"FA1", "FA2"}

RECURSIVE Total(_)
\* the sum of the amounts of a list of transfers
Total(list) ==
    IF Len(list) = 0 THEN 0
    ELSE list[Len(list)].amount + Total(SubSeq(list, 1, Len(list) - 1))

\* C1: with at least one transfer, a build() on a builder whose transfer
\* amounts do not add up to the input amount fails and returns no Transaction;
\* a build() that succeeds returns a Transaction whose transfers add up to its
\* input amount.
C1_Conservation ==
    [][ op' = "build" /\ Len(tb._transfers.list) > 0 =>
          /\ tb._input.amount # Total(tb._transfers.list) => res' # Ok /\ tx' = tx
          /\ res' = Ok => /\ tx'.transfers.def
                          /\ tx'.input.amount = Total(tx'.transfers.list) ]_vars

\* a build() of a builder with two transfers failed on the sum
C1_Witness ==
    /\ op = "build"
    /\ res = "transfer amount must equal input amount"
    /\ Len(tb._transfers.list) = 2
    /\ tb._input.amount # Total(tb._transfers.list)

\* C2: conversion() on a builder that has a transfer fails, transfer() on a
\* builder that has a conversion fails, both leave the builder as it was, and
\* no Transaction build() returns has both a conversion and transfers.
C2_MutuallyExclusive ==
    [][ /\ op' = "conversion" /\ Len(tb._transfers.list) > 0 => res' # Ok /\ tb' = tb
        /\ op' = "transfer" /\ tb._conversion # Undef => res' # Ok /\ tb' = tb
        /\ op' = "build" /\ res' = Ok =>
              ~(tx'.conversion # Undef /\ tx'.transfers.def) ]_vars

\* conversion() was refused on a builder with a transfer
C2_Witness ==
    /\ op = "conversion"
    /\ res = "One or more transfer(s) already specified for this transaction"
    /\ Len(tb._transfers.list) > 0
    /\ tb._conversion = Undef

\* C3: a build() on a builder with neither a conversion nor a transfer fails
\* and returns no Transaction; a Transaction build() returns has exactly one
\* of the two.
C3_OneOutputKind ==
    [][ op' = "build" =>
          /\ tb._conversion = Undef /\ Len(tb._transfers.list) = 0 =>
                res' # Ok /\ tx' = tx
          /\ res' = Ok => (tx'.conversion # Undef) # tx'.transfers.def ]_vars

\* a build() after input() alone failed for want of an output
C3_Witness ==
    /\ op = "build"
    /\ res = "Either a conversion or transfer must be specified"
    /\ tb._input.address \in {"FA1", "FA2"}

\* C4: a build() on a builder with a transfer to the input's public address
\* fails and returns no Transaction, also when the input address was given as
\* a private address.
C4_NoSelfTransfer ==
    [][ /\ op' = "build"
        /\ \E i \in 1 .. Len(tb._transfers.list) :
              tb._transfers.list[i].address = tb._input.address
        => res' # Ok /\ tx' = tx ]_vars

\* a build() failed on a transfer to the public address of the private input
\* address
C4_Witness ==
    /\ op = "build"
    /\ res = "input cannot be the same as the transfer address"
    /\ tb._key.secretKey = "sk1"
    /\ \E i \in 1 .. Len(tb._transfers.list) : tb._transfers.list[i].address = "FA1"

\* C5: a build() on a builder whose conversion is the input's asset type fails
\* and returns no Transaction, whichever of input() and conversion() came
\* first.
C5_ConversionToOtherAsset ==
    [][ op' = "build" /\ tb._conversion \in AssetTypes /\ tb._conversion = tb._input.type
        => res' # Ok /\ tx' = tx ]_vars

\* a build() failed on a conversion to the input's own asset type
C5_Witness ==
    /\ op = "build"
    /\ res = "Conversion asset cannot be the same as the input asset."
    /\ tb._conversion = tb._input.type

\* C6: in every state of a builder, input() with a negative or fractional
\* amount fails at the call, with a private and with a public address, and so
\* does transfer(); the builder is as before the call.
C6_BadAmountFailsAtCall ==
    \A amount_ \in BadAmountArgs :
        /\ \A type_ \in AssetTypes, fs \in {"Fs1", "FA1", "FA2"} :
              /\ input(tb, type_, fs, amount_).err # Ok
              /\ input(tb, type_, fs, amount_).b = tb
        /\ \A fa \in {"FA1", "FA2"} :
              /\ transfer(tb, fa, amount_).err # Ok
              /\ transfer(tb, fa, amount_).b = tb
        /\ op \in {"input", "transfer"} /\ res = Ok =>
              /\ tb._input.amount >= 0 /\ tb._input.amount % 2 = 0
              /\ \A i \in 1 .. Len(tb._transfers.list) :
                    /\ tb._transfers.list[i].amount >= 0
                    /\ tb._transfers.list[i].amount % 2 = 0

\* an input() call failed on its amount and left the builder's input unset
C6_Witness ==
    /\ op = "input"
    /\ res = "Input amount must be a positive nonzero integer"
    /\ tb._input.address = ""

C8_SecondInputFails ==
    [][ op' = "input" /\ tb._input.address # "" =>
          res' # Ok /\ tb'._input = tb._input ]_vars

\* C9: every Transaction build() returns has an input amount above zero.
C9_PositiveInputAmount ==
    op = "build" /\ res = Ok => tx.exists /\ tx.input.amount > 0

----------------------------------------------------------------------------
(* Properties of TransactionBatchBuilder *)

\* C10: a build() on a batch builder without transactions fails and returns no
\* batch.
C10_EmptyBatchFails ==
    [][ op' = "batch.build" /\ Len(bb._transactions) = 0 =>
          res' # Ok /\ batch' = batch ]_vars

\* a build() of a batch builder without transactions failed
C10_Witness ==
    /\ op = "batch.build"
    /\ res = "No Transactions Specified."
    /\ Len(bb._transactions) = 0
    /\ ~batch.exists

----------------------------------------------------------------------------
(* Properties of TransactionBatch *)

\* the Transactions of TransactionArgs whose builder took a private input
\* address, and so held a secret key
BuiltFromPrivate(im) ==
    { Detached(build(b, im).t) :
        b \in {c \in MemberBuilders : c._key.secretKey # Undef /\ build(c, im).err = Ok} }

\* the signature made with secret key sk over the hash of the data of index i
\* of the batch t
SignatureOver(t, i, sk) ==
    [ length |-> 64, sk |-> sk,
      hashed |-> sha512(MarshalDataSig(i, t._timestamp[1], TokenChainId, t._content)) ]

\* C11: a first-pass build() of a batch builder with members does not throw,
\* and the batch has at the slot of every member built from a private input
\* address the signature made with its key over the hash of that member's
\* data to sign, and a pending slot for every other member.
C11_FirstPassSigns ==
    [][ /\ op' = "batch.build"
        /\ ~bb._signatures.def
        /\ Len(bb._transactions) > 0
        /\ \A i \in 1 .. Len(bb._transactions) : bb._transactions[i].exists
        => /\ res' = Ok
           /\ \A i \in 1 .. Len(bb._transactions) :
                 IF bb._transactions[i] \in BuiltFromPrivate(impl)
                 THEN batch'._signatures.list[i] = <<SignatureOver(batch', i - 1, "sk1")>>
                 ELSE batch'._signatures.list[i] = <<>> ]_vars

\* C12: a build() that finalizes a batch, a first pass whose members were all
\* built from a private input address or a second pass, gives it the extIds
\* timestamp, RCD_0, sig_0, RCD_1, sig_1, ...: 1 + 2n of them for n members,
\* none absent.
C12_FinalizedExtIds ==
    [][ /\ op' = "batch.build"
        /\ res' = Ok
        /\ \/ bb._signatures.def
           \/ \A i \in 1 .. Len(bb._transactions) :
                 bb._transactions[i] \in BuiltFromPrivate(impl)
        => /\ Len(batch'._extIds) = 1 + 2 * Len(bb._transactions)
           /\ batch'._extIds[1] = [ts |-> ToString(batch'._timestamp[1])]
           /\ \A i \in 1 .. Len(bb._transactions) :
                 /\ batch'._extIds[2 * i].rcd.def
                 /\ batch'._extIds[2 * i + 1].sig # <<>> ]_vars

\* a batch is finalized when it has an RCD and a signature for every member
Finalized(t) ==
    /\ t.exists
    /\ t._rcds.def
    /\ Len(t._rcds.list) = Len(t._transactions)
    /\ \A i \in 1 .. Len(t._signatures.list) : t._signatures.list[i] # <<>>

\* no build() of a batch builder returns a finalized batch (an invariant of
\* SpecBatch): the first pass signs for no member and pkSignature always throws
NeverFinalized == ~Finalized(batch)

\* C13: an Entry that getEntry() returns has, after the timestamp, an RCD and
\* a signature for every member of the batch.
C13_EntryOnlyWhenSigned ==
    op = "batch.getEntry" /\ res = Ok =>
        LET extIds == getEntry(batch).entry.extIds IN
        /\ Len(extIds) = 1 + 2 * Len(batch._transactions)
        /\ \A i \in 1 .. Len(batch._transactions) :
              /\ extIds[2 * i].rcd.def
              /\ extIds[2 * i + 1].sig # <<>>

\* the members of the builder b with the input address of the Transaction t
MatchingMembers(b, t) ==
    { i \in 1 .. Len(b._transactions) :
        /\ b._transactions[i].exists
        /\ b._transactions[i].input.address = t.input.address }

\* C14: the first build() of a batch builder with one member built from a
\* public input address returns a batch with that slot pending; on a builder
\* seeded from it, pkSignature with the member and a signature of 64 bytes
\* succeeds and records the signature at the member's slot; and build() on the
\* seeded builder with the slot signed returns a batch whose extIds are the
\* timestamp, the member's RCD and that signature.
C14_TwoPhaseFlow ==
    [][ /\ /\ op' = "batch.build"
           /\ ~bb._signatures.def
           /\ Len(bb._transactions) = 1
           /\ bb._transactions[1].exists
           /\ bb._transactions[1] \notin BuiltFromPrivate(impl)
           => res' = Ok /\ batch'._signatures.list = << <<>> >>
        /\ /\ op' = "batch.pkSignature"
           /\ bb._signatures.def
           /\ arg'.tx.exists
           /\ MatchingMembers(bb, arg'.tx) # {}
           /\ arg'.signature[1].length = 64
           => /\ res' = Ok
              /\ \E i \in MatchingMembers(bb, arg'.tx) :
                    bb'._signatures.list[i] = arg'.signature
        /\ /\ op' = "batch.build"
           /\ bb._signatures.def
           /\ Len(bb._transactions) = 1
           /\ Len(bb._signatures.list) = 1
           /\ bb._signatures.list[1] # <<>>
           => /\ res' = Ok
              /\ Len(batch'._extIds) = 3
              /\ batch'._extIds[1] = [ts |-> ToString(bb._timestamp[1])]
              /\ batch'._extIds[2].rcd.def
              /\ batch'._extIds[3] = [sig |-> bb._signatures.list[1]] ]_vars

\* the slots of the builder b that have no signature yet
PendingSlots(b) ==
    { i \in 1 .. Len(b._signatures.list) : b._signatures.list[i] = <<>> }

\* C15: build() on a builder seeded from a partially signed batch, while a
\* slot is pending, fails with the Error that names the lowest index without
\* a signature, and returns no batch.
C15_MissingSignatureNamed ==
    [][ /\ op' = "batch.build"
        /\ bb._signatures.def
        /\ Len(bb._signatures.list) = Len(bb._transactions)
        /\ \A i \in 1 .. Len(bb._transactions) : bb._transactions[i].exists
        /\ PendingSlots(bb) # {}
        => LET first == CHOOSE i \in PendingSlots(bb) :
                            \A j \in PendingSlots(bb) : i <= j
           IN /\ res' = "Expecting signature for transaction index "
                            \o ToString(first - 1) \o ". No signature found."
              /\ batch' = batch ]_vars

\* C16: pkSignature with a Transaction whose input address is that of no
\* member fails with the Error 'Transaction ... not found', and leaves the
\* signatures as they were.
C16_UnknownInputNotFound ==
    [][ /\ op' = "batch.pkSignature"
        /\ arg'.tx.exists
        /\ MatchingMembers(bb, arg'.tx) = {}
        => /\ res' = "Transaction " \o arg'.tx.input.address
                        \o " not found, so signature cannot be assigned."
           /\ bb'._signatures = bb._signatures ]_vars

\* the signatures of a list of slots that are not 64 bytes long
WrongLength(slots) ==
    { i \in 1 .. Len(slots) : slots[i] # <<>> /\ slots[i][1].length # 64 }

\* C17: pkSignature with a signature that is not 64 bytes long fails at the
\* call and changes neither the builder nor a batch; no slot of a builder or
\* of a batch, and no element of a batch's extIds, ever holds such a signature.
C17_ShortSignatureRefused ==
    [][ /\ op' = "batch.pkSignature" /\ arg'.signature[1].length # 64 =>
              res' # Ok /\ bb' = bb /\ batch' = batch
        /\ WrongLength(bb'._signatures.list) = {}
        /\ WrongLength(batch'._signatures.list) = {}
        /\ \A k \in 2 .. Len(batch'._extIds) :
              k % 2 = 1 => WrongLength(<<batch'._extIds[k].sig>>) = {} ]_vars

\* pkSignature was refused a signature of 63 bytes for a pending member of a
\* builder seeded from a batch
C17_Witness ==
    /\ op = "batch.pkSignature"
    /\ res # Ok
    /\ arg.signature[1].length = 63
    /\ bb._signatures.def
    /\ \E i \in MatchingMembers(bb, arg.tx) : bb._signatures.list[i] = <<>>

\* C18: transaction(tx) on a builder seeded from a batch that went through the
\* first pass fails, and changes the members neither of the builder nor of the
\* batch.
C18_NoMemberAfterFirstPass ==
    [][ op' = "batch.transaction" /\ bb._signatures.def =>
          /\ res' # Ok
          /\ bb'._transactions = bb._transactions
          /\ batch'._transactions = batch._transactions ]_vars

\* C19: for a builder seeded from a first-pass batch, the content and the
\* timestamp that a second pass gives its batch are those of the first-pass
\* batch, so that the data to sign of every index is the same.
C19_SnapshotCarried ==
    op = "batch.seed" /\ batch._content.def =>
        /\ bb._timestamp = batch._timestamp
        /\ SecondPassContent(bb) = batch._content
        /\ \A i \in 1 .. Len(batch._transactions) :
              MarshalDataSig(i - 1, bb._timestamp[1], TokenChainId, SecondPassContent(bb))
                  = getMarshalDataSig(batch, i - 1).data

\* C20: in a batch that a build() finalizes, a first pass whose members were
\* all built from a private input address or a second pass, the RCD of every
\* index is the type-1 tag with the public key of that member's input address.
C20_RCDOfInputKey ==
    [][ /\ op' = "batch.build"
        /\ res' = Ok
        /\ \/ bb._signatures.def
           \/ \A i \in 1 .. Len(bb._transactions) :
                 bb._transactions[i] \in BuiltFromPrivate(impl)
        => /\ batch'._rcds.def
           /\ Len(batch'._rcds.list) = Len(bb._transactions)
           /\ \A i \in 1 .. Len(bb._transactions) :
                 /\ batch'._rcds.list[i].def
                 /\ batch'._rcds.list[i].type = 1
                 /\ \E pk \in {"pk1", "pk2"} :
                       /\ batch'._rcds.list[i].publicKey = pk
                       /\ bb._transactions[i].input.address
                             = (IF pk = "pk1" THEN "FA1" ELSE "FA2") ]_vars

----------------------------------------------------------------------------
(* Properties of the data to sign *)

\* C21: getMarshalDataSig(i) of a first-pass batch does not throw and returns
\* the bytes of the index as decimal text, then those of the batch's timestamp
\* as decimal text, then the bytes the token chain id spells in hexadecimal,
\* then those of the batch's content; and for every member of a first pass,
\* the hash of these bytes is the hash that the pass handed to sign().
C21_MarshalOfSlot ==
    [][ /\ op' = "batch.getMarshalDataSig" /\ batch._content.def =>
              /\ res' = Ok
              /\ ret' = << BufferFrom(NumberToString(arg'.index[1]))
                             \o BufferFrom(NumberToString(batch._timestamp[1]))
                             \o BufferFromHex(TokenChainId)
                             \o BufferFrom(JSONBigStringify(batch._content)) >>
        /\ op' = "batch.build" /\ res' = Ok /\ ~bb._signatures.def =>
              \A i \in 1 .. Len(bb._transactions) :
                 /\ getMarshalDataSig(batch', i - 1).err = Ok
                 /\ sha512(getMarshalDataSig(batch', i - 1).data)
                        = FirstPassHashed(i - 1, batch'._timestamp[1],
                                          FirstPassContent(bb._transactions)) ]_vars

\* the data to sign of the second of two members was asked for: it starts
\* with the digit 1 of the index, and the 32 bytes of the chain id are in it
C21_Witness ==
    /\ op = "batch.getMarshalDataSig" /\ res = Ok
    /\ Len(batch._transactions) = 2
    /\ Len(batch._content.transactions) = 2
    /\ arg.index = <<1>>
    /\ ret[1][1] = 49
    /\ SubSeq(ret[1], 3, 34) = BufferFromHex(TokenChainId)
    /\ Len(ret[1]) > 34 + 2 * 60

\* C22: the data to sign is a function of its four fields, and differs from
\* the data of every other index with the same timestamp, chain id and
\* content, of every other timestamp with the same index, chain id and content,
\* of every other chain id and of every other content likewise.
C22_MarshalSensitive ==
    op = "getMarshalDataSig" =>
        /\ ret = <<MarshalDataSig(arg.index, arg.timestamp, arg.chainId, arg.content)>>
        /\ \A i \in MarshalIndexes \ {arg.index} :
              MarshalDataSig(i, arg.timestamp, arg.chainId, arg.content) # ret[1]
        /\ \A t \in MarshalTimestamps \ {arg.timestamp} :
              MarshalDataSig(arg.index, t, arg.chainId, arg.content) # ret[1]
        /\ \A c \in MarshalChainIds \ {arg.chainId} :
              MarshalDataSig(arg.index, arg.timestamp, c, arg.content) # ret[1]
        /\ \A c \in MarshalContents \ {arg.content} :
              MarshalDataSig(arg.index, arg.timestamp, arg.chainId, c) # ret[1]

\* the data of index 1 and timestamp 12 starts with the bytes of "112", as
\* the data of index 11 and timestamp 2 does
C22_Witness ==
    /\ op = "getMarshalDataSig"
    /\ arg.index = 1 /\ arg.timestamp = 12
    /\ SubSeq(ret[1], 1, 3) = <<49, 49, 50>>
    /\ SubSeq(ret[1], 1, 3)
          = SubSeq(MarshalDataSig(11, 2, arg.chainId, arg.content), 1, 3)
    /\ Len(arg.content.transactions) = 1

----------------------------------------------------------------------------
(* Properties of Transaction *)

C24_NoThrowOnBadSignature ==
    op = "validateSignature" =>
        LET rcd == IF impl = "fields" THEN tx.rcd ELSE arg.rcd
            absent == arg.signature = <<>> \/ ~rcd.def
        IN /\ absent => res = "Transaction not signed"
           /\ ~absent => res = Ok
           /\ /\ ~absent
              /\ \/ arg.signature[1].length # 64
                 \/ arg.signature[1].hashed # arg.hashed[1]
                 \/ arg.signature[1].sk # SecretKeyOf(rcd.publicKey)
              => ret = <<FALSE>>

----------------------------------------------------------------------------
(* Properties of TransactionBatch.validateSignatures *)

\* C25: validateSignatures() of a batch whose members were all built from a
\* private input address, so that the first pass signs every one of them with
\* the key of its input, returns true.
C25_ValidBatchValidates ==
    /\ op = "batch.validateSignatures"
    /\ Len(batch._transactions) > 0
    /\ batch._content.def
    /\ \A i \in 1 .. Len(batch._transactions) :
          batch._transactions[i] \in BuiltFromPrivate(impl)
    => res = Ok /\ ret = <<TRUE>>

\* C26: validateSignatures() of a first-pass batch whose members were all
\* built from a public input address, no signature having been supplied for
\* any of them, throws.
C26_UnsignedBatchThrows ==
    /\ op = "batch.validateSignatures"
    /\ Len(batch._transactions) > 0
    /\ batch._content.def
    /\ \A i \in 1 .. Len(batch._transactions) :
          /\ batch._transactions[i].exists
          /\ batch._transactions[i] \notin BuiltFromPrivate(impl)
    /\ \A i \in 1 .. Len(batch._signatures.list) : batch._signatures.list[i] = <<>>
    => res # Ok /\ ret = <<>>

\* validateSignatures() threw on the batch of one Transaction whose input is
\* the public address FA1
C26_Witness ==
    /\ op = "batch.validateSignatures"
    /\ res = "Transaction not signed"
    /\ Len(batch._transactions) = 1
    /\ batch._transactions[1].input.address = "FA1"
    /\ batch._transactions[1] \notin BuiltFromPrivate(impl)
    /\ batch._signatures.list = <<<<>>>>
    /\ batch._content.def

----------------------------------------------------------------------------
(* Properties of TransactionBuilder.pkSignature *)

\* C27: in every state of a builder, pkSignature() with a signature that is
\* not 64 bytes long fails, whatever the public key, and the builder, its
\* public key and its signature among the rest, is as before the call.
C27_WrongLengthSignatureFails ==
    /\ \A publicKey \in PublicKeys, signature \in SignatureArgs :
          signature.length # 64 =>
              /\ pkSignature(tb, publicKey, signature).err # Ok
              /\ pkSignature(tb, publicKey, signature).b = tb
    /\ tb._signature # <<>> => tb._signature[1].length = 64

\* a pkSignature() call failed on the length, on a builder with the input
\* address FA1 and neither a public key nor a signature
C27_Witness ==
    /\ op = "pkSignature"
    /\ res = "Invalid Signature Length."
    /\ tb._input.address = "FA1"
    /\ tb._key.publicKey = Undef
    /\ tb._signature = <<>>

\* C28: in every state of a builder, pkSignature() with a public key whose
\* address is not the input address of the builder fails, and the builder,
\* its public key and its signature among the rest, is as before the call.
C28_ForeignKeyFails ==
    /\ \A publicKey \in PublicKeys, signature \in SignatureArgs :
          keyToPublicFctAddress(publicKey) # tb._input.address =>
              /\ pkSignature(tb, publicKey, signature).err # Ok
              /\ pkSignature(tb, publicKey, signature).b = tb
    /\ tb._signature # <<>> =>
          keyToPublicFctAddress(tb._key.publicKey) = tb._input.address

\* a pkSignature() call failed on the key, on a builder with the input
\* address FA1 and neither a public key nor a signature
C28_Witness ==
    /\ op = "pkSignature"
    /\ res = "Public Key for provided signature does not match input adderess."
    /\ tb._input.address = "FA1"
    /\ tb._key.publicKey = Undef
    /\ tb._signature = <<>>

\* C29: in every state of a builder that holds a signature, which only a
\* pkSignature() that succeeded gives it, every input(), transfer(),
\* conversion() and metadata() fails and the builder, its input, transfers,
\* conversion and metadata among the rest, is as before the call.
C29_SignedBuilderIsClosed ==
    tb._signature # <<>> =>
        /\ \A type_ \in AssetTypes, fs \in AddressArgs, amount_ \in AmountArgs :
              /\ input(tb, type_, fs, amount_).err # Ok
              /\ input(tb, type_, fs, amount_).b = tb
        /\ \A fa \in AddressArgs, amount_ \in AmountArgs :
              /\ transfer(tb, fa, amount_).err # Ok
              /\ transfer(tb, fa, amount_).b = tb
        /\ \A convert_to_type_ \in AssetTypes :
              /\ conversion(tb, convert_to_type_).err # Ok
              /\ conversion(tb, convert_to_type_).b = tb
        /\ \A m \in MetadataArgs :
              /\ metadata(tb, m).err # Ok
              /\ metadata(tb, m).b = tb
        /\ op \in {"input", "transfer", "conversion", "metadata"} => res # Ok

\* a metadata() call failed on a builder that a pkSignature() had signed
C29_Witness ==
    /\ op = "metadata"
    /\ res = "Attempting to add new metadata to previously assembled transaction, expecting signatures only"
    /\ tb._signature # <<>>
    /\ tb._metadata = Undef

----------------------------------------------------------------------------
(* Properties of a seeded TransactionBuilder *)

\* C30: input() called on a builder that was just seeded from a built
\* Transaction fails, and leaves the builder as the seeding made it.
C30_SeededInputFails ==
    [][op = "seed" /\ op' = "input" => res' # Ok /\ tb' = tb]_vars

\* C31: build() called on a builder that was just seeded from a built
\* Transaction, no pkSignature() having attached a signature, fails.
C31_SeededBuildNeedsSignature ==
    [][op = "seed" /\ op' = "build" => res' # Ok]_vars

\* the Transactions of TransactionArgs whose builder took a public input
\* address, and so held no secret key
BuiltFromPublic(im) ==
    { Detached(build(b, im).t) :
        b \in {c \in MemberBuilders : c._key.secretKey = Undef /\ build(c, im).err = Ok} }

\* C32: on a builder that was just seeded from a Transaction built from a
\* public input address, pkSignature() with the public key of that address
\* and a signature of 64 bytes succeeds, and the build() after it succeeds and
\* returns a Transaction with that signature, the RCD of that public key, and
\* the input, transfers, conversion and metadata of the first Transaction.
C32_ExternalSignatureFlow ==
    op = "seed" /\ Detached(tx) \in BuiltFromPublic(impl) =>
        \A publicKey \in PublicKeys, signature \in SignatureArgs :
            keyToPublicFctAddress(publicKey) = tx.input.address /\ signature.length = 64 =>
                LET signed == pkSignature(tb, publicKey, signature)
                    built == build(signed.b, impl)
                IN /\ signed.err = Ok
                   /\ built.err = Ok
                   /\ built.t.signature = <<signature>>
                   /\ built.t.rcd = [def |-> TRUE, type |-> RCD_TYPE_1, publicKey |-> publicKey]
                   /\ built.t.input = tx.input
                   /\ built.t.transfers = tx.transfers
                   /\ built.t.conversion = tx.conversion
                   /\ built.t.metadata = tx.metadata

----------------------------------------------------------------------------
(* Properties of a built Transaction *)

C34_TransactionImmutable ==
    [][ /\ tx.exists
        /\ op' \in {"input", "transfer", "conversion", "metadata", "pkSignature"}
        => /\ tx'.input = tx.input
           /\ tx'.transfers = tx.transfers
           /\ tx'.conversion = tx.conversion
           /\ tx'.metadata = tx.metadata
           /\ tx'.key = tx.key
           /\ tx'.rcd = tx.rcd ]_vars

----------------------------------------------------------------------------
(* Properties of the objects that batches and batch builders hold *)

\* C35: transaction() and pkSignature() on a batch builder seeded from a batch
\* leave the transactions, the signatures, the extIds and the content of that
\* batch as they were.
C35_BatchNotShared ==
    [][ /\ batch.exists
        /\ batch.shSignatures
        /\ op' \in {"batch.transaction", "batch.pkSignature"}
        => /\ batch'._transactions = batch._transactions
           /\ batch'._signatures = batch._signatures
           /\ batch'._extIds = batch._extIds
           /\ batch'._content = batch._content ]_vars

\* the calls on a batch that read it
BatchReads ==
    { "batch.getEntry", "batch.getMarshalDataSig", "batch.getTimestamp",
      "batch.getChainId", "batch.validateSignatures" }

HasConversion(t) == ~Falsy(t.conversion)

HasTransfers(t) == t.transfers.def /\ Len(t.transfers.list) > 0

\* C37: every Transaction that exists has an input and exactly one of a
\* conversion and a non-empty transfer list; the constructor accepts a
\* response object with an input and only a conversion or only transfers,
\* and throws for one with both.
C37_ValidByConstruction ==
    /\ tx.exists => tx.input.def /\ (HasConversion(tx) # HasTransfers(tx))
    /\ op = "fromObject" /\ arg.input.def =>
          IF HasConversion(arg) # HasTransfers(arg) THEN res = Ok /\ tx.exists
          ELSE HasConversion(arg) /\ HasTransfers(arg) => res # Ok

(* Properties of a call of the builder that throws *)

\* the calls that change a TransactionBuilder
BuilderWrites == {"input", "transfer", "conversion", "metadata", "pkSignature"}

\* C38: when input(), transfer(), conversion(), metadata() or pkSignature()
\* throws, the builder's input, key, transfers, conversion, metadata and
\* signature are what they were before the call, a Transaction built before
\* is what it was, and build() gives what it would have given without the
\* call.
C38_FailureAtomic ==
    [][ op' \in BuilderWrites /\ res' # Ok
        => /\ tb'._input = tb._input
           /\ tb'._key = tb._key
           /\ tb'._transfers = tb._transfers
           /\ tb'._conversion = tb._conversion
           /\ tb'._metadata = tb._metadata
           /\ tb'._signature = tb._signature
           /\ tx' = tx
           /\ build(tb', impl) = build(tb, impl) ]_vars

\* input() threw for its amount on a builder that had the public input
\* address FA2, no secret key and a transfer, and the builder still has them
C38_Witness ==
    /\ op = "input"
    /\ res = "Input amount must be a positive nonzero integer"
    /\ tb._input.address = "FA2" /\ tb._input.amount = 2
    /\ tb._key.def /\ tb._key.pubaddr = "FA2" /\ tb._key.secretKey = Undef
    /\ Len(tb._transfers.list) = 1
    /\ build(tb, impl).err = Ok

(* Properties of the slot that a batch builder's pkSignature writes *)

\* C39: on a batch builder that has a list of signatures and two or more
\* members with the input address of the Transaction given, pkSignature with
\* a signature of 64 bytes returns, writes the signature at the slot of the
\* member of lowest index among them, and leaves every other slot as it was.
C39_LowestMatchingMember ==
    [][ /\ op' = "batch.pkSignature"
        /\ bb._signatures.def
        /\ arg'.tx.exists
        /\ Cardinality(MatchingMembers(bb, arg'.tx)) >= 2
        /\ arg'.signature[1].length = 64
        => /\ res' = Ok
           /\ LET idx == CHOOSE i \in MatchingMembers(bb, arg'.tx) :
                            \A j \in MatchingMembers(bb, arg'.tx) : i <= j
              IN /\ bb'._signatures.list[idx] = arg'.signature
                 /\ \A j \in 1 .. Len(bb._signatures.list) :
                       j # idx => bb'._signatures.list[j] = bb._signatures.list[j] ]_vars

====
